---- MODULE Spec2Model ----
(***************************************************************************)
(* Model of the MQTT load generator of thingspanel-testing-tools           *)
(* (src/mqtt/main.go): the coordinator (main), the publisher workers       *)
(* (connectAndPublish), the start barrier (startChan), the cancellation    *)
(* context, the wait group and the shared atomic counters.                 *)
(***************************************************************************)
EXTENDS Integers, Sequences, FiniteSets, TLC

(* ------------------------------ bounds --------------------------------- *)
\* longest token file (in lines) the model reads
MaxLines == 2
\* largest configured client_number
MaxClients == 2
\* largest configured cycle_count
MaxCycles == 2
\* how often one worker may be released by one and the same closed channel
\* before the coordinator installs the replacement (a timing bound)
MaxRelease == 2
\* largest configuration explored: workers to spawn times cycles to run
MaxWork == 2
\* largest record count the store returns, in messages' worth of points
MaxStored == 2
\* the timed cycle loop: largest data_interval, largest processing delay of
\* one iteration (both in clock units) and largest cycle_count
MaxInterval == 2
MaxDelay == 2
MaxSchedCycles == 3
\* largest number given in the configuration file or on the command line
MaxFlagValue == 2
\* create_device: largest --count, largest --batch, and the most lines the
\* ID file and the token file hold before the run
MaxDevices == 3
MaxBatch == 3
MaxOldLines == 1

(* --------------------------- program constants ------------------------- *)
\* atomic.AddUint64(&dataCount, 10)
PointsPerPublish == 10
\* LoadConfig: default data_point_count
DefaultDataPointCount == 10
\* config.yml: data_point_count
ShippedDataPointCount == 1

VARIABLES
    tokenFile,        \* the token file on disk: [status, lines]
    cfgClientNumber,  \* client_number as configured (before the clamp)
    ClientNumber,     \* AppConfig.Device.ClientNumber
    CycleCount,       \* AppConfig.Test.CycleCount
    DataPointCount,   \* AppConfig.Data.DataPointCount
    mainPc,           \* position of main
    tokenLines,       \* main: tokenLines
    i,                \* main: index of the spawn loop
    cycle,            \* main: index of the cycle loop
    connectedDevices, \* main: sample of successNum after the settle wait
    finalDataCount,   \* main: dataCount as read for the report
    finalExitCount,   \* main: exitCount as read for the report
    startChan,        \* the global startChan: identity of the current channel
    closed,           \* identities of the channels that have been closed
    ctxDone,          \* the context has been cancelled
    wgCount,          \* counter of the sync.WaitGroup
    monPc,            \* position of the MonitorLogs goroutine
    successNum, dataCount, exitCount, msgCount,   \* shared counters
    wpc,              \* position of each worker
    username,         \* the identity each worker was started with
    myChan,           \* the channel a worker last read from startChan
    lastRel,          \* the channel that released the worker last (-1: none yet)
    relCnt,           \* how often the worker was released by channel lastRel
    lastFailed,       \* the worker's attempt for broadcast lastRel failed, and
                      \* the worker has not yet moved on to another channel
    initDoneCloses,   \* MonitorLogs: how often close(initDone) has run
    initialCount,     \* MonitorLogs: initialCount, the baseline stored count
    lastDBCount,      \* MonitorLogs: lastDBCount
    lastSentCount,    \* MonitorLogs: lastSentCount
    lastMsgCount,     \* MonitorLogs: lastMsgCount
    lastTick,         \* what the last ticker tick did: none yet, skipped, reported
    successRate,      \* MonitorLogs: successRate of the last report (percent)
    totalSuccessRate, \* MonitorLogs: totalSuccessRate of the last report (percent)
    initialSentCount, \* MonitorLogs: initialSentCount
    sentDiffSum,      \* the sum of the sentDiff of all reports so far
    baselineFailed,   \* the initial count query of the monitor has failed
    totalStored,      \* MonitorLogs: currentDBCount-initialCount of the last report
    now,              \* the timed cycle loop: the clock
    DataInterval,     \* the timed cycle loop: AppConfig.Test.DataInterval
    schedCycleCount,  \* the timed cycle loop: AppConfig.Test.CycleCount
    schedCycle,       \* the timed cycle loop: cycle
    schedPc,          \* the timed cycle loop: position of main
    firstBroadcast,   \* the clock at the first close(startChan) (-1: none yet)
    lastBroadcast,    \* the clock at the latest close(startChan) (-1: none yet)
    fileRead,         \* LoadConfig: the configuration file could be read
    fileConfig,       \* LoadConfig: the values in the configuration file
    flagGiven,        \* LoadConfig: the parameters given on the command line
    flagValue,        \* LoadConfig: the value of every flag after flag.Parse
    loadedConfig,     \* LoadConfig: AppConfig when LoadConfig returns
    loadPc,           \* LoadConfig: position
    count,            \* create_device: *deviceCount
    batchSize,        \* create_device: *batchSize
    appendMode,       \* create_device: *appendMode
    toolPc,           \* create_device: position of main
    di,               \* createDevices: i
    batchCount,       \* createDevices: batchCount
    devices,          \* createDevices: devices, then main's devices
    txPending,        \* the devices inserted in the open transaction
    committed,        \* the devices committed to the database
    commits,          \* the number of transactions committed
    idFileBefore,     \* the ID file before the run
    tokenFileBefore,  \* the token file before the run
    idFileContent,    \* the ID file
    tokenFileContent  \* the token file

vars == << tokenFile, cfgClientNumber, ClientNumber, CycleCount, DataPointCount,
           mainPc, tokenLines, i, cycle, connectedDevices, finalDataCount,
           finalExitCount, startChan, closed, ctxDone, wgCount, monPc,
           successNum, dataCount, exitCount, msgCount, wpc, username, myChan,
           lastRel, relCnt, lastFailed, initDoneCloses, initialCount,
           lastDBCount, lastSentCount, lastMsgCount, lastTick, successRate,
           totalSuccessRate, initialSentCount, sentDiffSum, baselineFailed,
           totalStored, now, DataInterval, schedCycleCount, schedCycle,
           schedPc, firstBroadcast, lastBroadcast, fileRead, fileConfig,
           flagGiven, flagValue, loadedConfig, loadPc, count, batchSize,
           appendMode, toolPc, di, batchCount, devices, txPending, committed,
           commits, idFileBefore, tokenFileBefore, idFileContent,
           tokenFileContent >>

mainVars == << mainPc, tokenLines, i, cycle, connectedDevices, finalDataCount,
               finalExitCount >>
cfgVars == << tokenFile, cfgClientNumber, CycleCount, DataPointCount >>
workerVars == << wpc, username, myChan, lastRel, relCnt, lastFailed >>
counters == << successNum, dataCount, exitCount, msgCount >>
monReports == << initialSentCount, sentDiffSum, baselineFailed, totalStored >>
monState == << initDoneCloses, initialCount, lastDBCount, lastSentCount,
               lastMsgCount, lastTick, successRate, totalSuccessRate,
               monReports >>
monVars == << monPc, monState >>
schedVars == << now, DataInterval, schedCycleCount, schedCycle, schedPc,
                firstBroadcast, lastBroadcast >>
loadVars == << fileRead, fileConfig, flagGiven, flagValue, loadedConfig, loadPc >>
toolInputs == << count, batchSize, appendMode, idFileBefore, tokenFileBefore >>
toolVars == << toolInputs, toolPc, di, batchCount, devices, txPending,
               committed, commits, idFileContent, tokenFileContent >>

\* goroutine slots: worker w is the one started in iteration i = w
Workers == 0 .. (MaxLines - 1)
\* channel identities: the initial channel and one per cycle
Chans == 0 .. MaxCycles

Min(a, b) == IF a < b THEN a ELSE b

(* ---------------------------- the token file --------------------------- *)
\* the credential on line k of the file (credentials are distinct)
Token(k) == "dev" \o ToString(k)

\* a file of n lines, each either blank or holding its credential
FilesOfLen(n) == { [k \in 1 .. n |-> IF k \in S THEN Token(k) ELSE ""] : S \in SUBSET (1 .. n) }

Files == UNION { FilesOfLen(n) : n \in 0 .. MaxLines }

TokenFiles == { [status |-> "ok", lines |-> f] : f \in Files }
              \cup { [status |-> "missing", lines |-> << >>] }
              \cup { [status |-> "unreadable", lines |-> f] : f \in FilesOfLen(1) }

RECURSIVE ScanLines(_)
\* the scanner loop of readFile: keeps the non-empty lines, in order
ScanLines(ls) ==
    IF ls = << >> THEN << >>
    ELSE IF Head(ls) # "" THEN << Head(ls) >> \o ScanLines(Tail(ls))
         ELSE ScanLines(Tail(ls))

\* readFile without the test for an empty result
readFileNoEmptyCheck(f) ==
    IF f.status = "missing" THEN [err |-> TRUE, lines |-> << >>]
    ELSE IF f.status = "unreadable" THEN [err |-> TRUE, lines |-> << >>]
    ELSE [err |-> FALSE, lines |-> ScanLines(f.lines)]

\* main.go:172-197  readFile: [err, lines]
readFile(f) ==
    IF f.status = "missing" THEN [err |-> TRUE, lines |-> << >>]
    ELSE IF f.status = "unreadable" THEN [err |-> TRUE, lines |-> << >>]
    ELSE IF Len(ScanLines(f.lines)) = 0 THEN [err |-> TRUE, lines |-> << >>]
    ELSE [err |-> FALSE, lines |-> ScanLines(f.lines)]

(* -------------------------------- Init --------------------------------- *)
\* LoadConfig: a data_point_count <= 0 is replaced by the default
EffectiveDataPointCount(n) == IF n <= 0 THEN DefaultDataPointCount ELSE n

\* the monitor before main starts it
MonIdle ==
    /\ monPc = "notStarted"
    /\ initDoneCloses = 0
    /\ initialCount = 0
    /\ lastDBCount = 0
    /\ lastSentCount = 0
    /\ lastMsgCount = 0
    /\ lastTick = "none"
    /\ successRate = 0
    /\ totalSuccessRate = 0
    /\ initialSentCount = 0
    /\ sentDiffSum = 0
    /\ baselineFailed = FALSE
    /\ totalStored = 0

\* the configuration parameters of LoadConfig, by their field names
StringParams == {"TokenFile", "Server", "Topic", "Host", "User", "Password",
                 "Name", "SSLMode"}
NumberParams == {"ClientNumber", "QoS", "DataInterval", "CycleCount",
                 "ConnectWaitTime", "MinValue", "MaxValue", "DataPointCount",
                 "LogInterval"}
Params == StringParams \cup NumberParams

\* the values a parameter takes in the file or on the command line
\* (durations and floats in whole units)
ParamValues(p) == IF p \in StringParams THEN {"", "a", "b"} ELSE -1 .. MaxFlagValue

\* the value of a flag that is not on the command line
FlagDefault(p) == IF p \in StringParams THEN "" ELSE IF p = "QoS" THEN -1 ELSE 0

\* AppConfig before yaml.Unmarshal: Go's zero values
ZeroConfig == [p \in Params |-> IF p \in StringParams THEN "" ELSE 0]

\* a configuration file that sets every parameter
BaseConfig == [p \in Params |-> IF p \in StringParams THEN "a" ELSE 1]

\* the timed cycle loop is not part of this run
SchedIdle ==
    /\ now = 0
    /\ DataInterval = 1
    /\ schedCycleCount = 0
    /\ schedCycle = 0
    /\ schedPc = "idle"
    /\ firstBroadcast = -1
    /\ lastBroadcast = -1

\* LoadConfig is not part of this run
LoadIdle ==
    /\ fileRead = TRUE
    /\ fileConfig = BaseConfig
    /\ flagGiven = {}
    /\ flagValue = [p \in Params |-> FlagDefault(p)]
    /\ loadedConfig = ZeroConfig
    /\ loadPc = "idle"

\* create_device is not part of this run
ToolIdle ==
    /\ count = 0
    /\ batchSize = 0
    /\ appendMode = TRUE
    /\ toolPc = "idle"
    /\ di = 0
    /\ batchCount = 0
    /\ devices = << >>
    /\ txPending = {}
    /\ committed = {}
    /\ commits = 0
    /\ idFileBefore = << >>
    /\ tokenFileBefore = << >>
    /\ idFileContent = << >>
    /\ tokenFileContent = << >>

\* the load generator when main starts
RunInit ==
    /\ tokenFile \in TokenFiles
    /\ cfgClientNumber \in -1 .. MaxClients
    /\ ClientNumber = cfgClientNumber
    /\ CycleCount \in 0 .. MaxCycles
    /\ Min(cfgClientNumber, Len(ScanLines(tokenFile.lines))) * CycleCount <= MaxWork
    /\ DataPointCount = EffectiveDataPointCount(ShippedDataPointCount)
    /\ mainPc = "readFile"
    /\ tokenLines = << >>
    /\ i = 0
    /\ cycle = 0
    /\ connectedDevices = 0
    /\ finalDataCount = 0
    /\ finalExitCount = 0
    /\ startChan = -1
    /\ closed = {}
    /\ ctxDone = FALSE
    /\ wgCount = 0
    /\ successNum = 0
    /\ dataCount = 0
    /\ exitCount = 0
    /\ msgCount = 0
    /\ wpc = [w \in Workers |-> "idle"]
    /\ username = [w \in Workers |-> ""]
    /\ myChan = [w \in Workers |-> -1]
    /\ lastRel = [w \in Workers |-> -1]
    /\ relCnt = [w \in Workers |-> 0]
    /\ lastFailed = [w \in Workers |-> FALSE]

Init ==
    /\ RunInit
    /\ MonIdle
    /\ SchedIdle
    /\ LoadIdle
    /\ ToolIdle

(* ------------------------- the coordinator: main ----------------------- *)
\* main.go:82-85  tokenLines, err := readFile(...); log.Fatalf on error
ReadTokenFile ==
    /\ mainPc = "readFile"
    /\ LET r == readFile(tokenFile) IN
         IF r.err
         THEN /\ mainPc' = "fatal"
              /\ UNCHANGED tokenLines
         ELSE /\ mainPc' = "start"
              /\ tokenLines' = r.lines
    /\ UNCHANGED << i, cycle, connectedDevices, finalDataCount, finalExitCount >>
    /\ UNCHANGED << schedVars, loadVars, toolVars >>
    /\ UNCHANGED << cfgVars, ClientNumber, startChan, closed, ctxDone, wgCount,
                    monVars, counters, workerVars >>

\* main.go:88-95  startChan = make(...); context.WithCancel; go MonitorLogs()
StartMonitor ==
    /\ mainPc = "start"
    /\ startChan' = 0
    /\ monPc' = "open"
    /\ mainPc' = "clamp"
    /\ UNCHANGED monState
    /\ UNCHANGED << tokenLines, i, cycle, connectedDevices, finalDataCount,
                    finalExitCount >>
    /\ UNCHANGED << schedVars, loadVars, toolVars >>
    /\ UNCHANGED << cfgVars, ClientNumber, closed, ctxDone, wgCount, counters,
                    workerVars >>

\* the clamp fed with every configured count: more identities than clients
ClampIgnoringConfigured(availableDevices, n) == availableDevices

\* main.go:102-106  the client number after the shortfall check
ClampClientNumber(availableDevices, n) ==
    IF availableDevices < n THEN availableDevices ELSE n

\* main.go:102-106
Clamp ==
    /\ mainPc = "clamp"
    /\ ClientNumber' = ClampClientNumber(Len(tokenLines), ClientNumber)
    /\ i' = 0
    /\ mainPc' = IF 0 < ClientNumber' THEN "spawn" ELSE "settle"
    /\ UNCHANGED << tokenLines, cycle, connectedDevices, finalDataCount,
                    finalExitCount >>
    /\ UNCHANGED << schedVars, loadVars, toolVars >>
    /\ UNCHANGED << cfgVars, startChan, closed, ctxDone, wgCount, monVars,
                    counters, workerVars >>

\* main.go:108-111  one iteration: wg.Add(1); go connectAndPublish(.., tokenLines[i])
SpawnWorker ==
    /\ mainPc = "spawn"
    /\ i < ClientNumber
    /\ i \in Workers
    /\ wgCount' = wgCount + 1
    /\ wpc' = [wpc EXCEPT ![i] = "connect"]
    /\ username' = [username EXCEPT ![i] = tokenLines[i + 1]]
    /\ i' = i + 1
    /\ mainPc' = IF i + 1 < ClientNumber THEN "spawn" ELSE "settle"
    /\ UNCHANGED << tokenLines, cycle, connectedDevices, finalDataCount,
                    finalExitCount >>
    /\ UNCHANGED << schedVars, loadVars, toolVars >>
    /\ UNCHANGED << cfgVars, ClientNumber, startChan, closed, ctxDone, monVars,
                    counters, myChan, lastRel, relCnt, lastFailed >>

\* main.go:114-129  settle sleep, sample successNum, branch, enter the cycle loop
SettleSample ==
    /\ mainPc = "settle"
    /\ connectedDevices' = successNum
    /\ cycle' = 1
    /\ mainPc' = IF successNum = 0 THEN "earlyCancel"
                 ELSE IF 1 <= CycleCount THEN "close" ELSE "cancel"
    /\ UNCHANGED << tokenLines, i, finalDataCount, finalExitCount >>
    /\ UNCHANGED << schedVars, loadVars, toolVars >>
    /\ UNCHANGED << cfgVars, ClientNumber, startChan, closed, ctxDone, wgCount,
                    monVars, counters, workerVars >>

\* main.go:120  cancel() on the zero-connections path
EarlyCancel ==
    /\ mainPc = "earlyCancel"
    /\ ctxDone' = TRUE
    /\ mainPc' = "earlyWait"
    /\ UNCHANGED << tokenLines, i, cycle, connectedDevices, finalDataCount,
                    finalExitCount >>
    /\ UNCHANGED << schedVars, loadVars, toolVars >>
    /\ UNCHANGED << cfgVars, ClientNumber, startChan, closed, wgCount, monVars,
                    counters, workerVars >>

\* wg.Wait() without waiting
WaitReturnsAtOnce(n) == TRUE

\* sync.WaitGroup.Wait returns when the counter is zero
WaitReturns(n) == n = 0

\* main.go:121-122  wg.Wait(); return
EarlyWait ==
    /\ mainPc = "earlyWait"
    /\ WaitReturns(wgCount)
    /\ mainPc' = "returned"
    /\ UNCHANGED << tokenLines, i, cycle, connectedDevices, finalDataCount,
                    finalExitCount >>
    /\ UNCHANGED << schedVars, loadVars, toolVars >>
    /\ UNCHANGED << cfgVars, ClientNumber, startChan, closed, ctxDone, wgCount,
                    monVars, counters, workerVars >>

\* main.go:131  close(startChan); closing a closed channel panics
CloseStartChan ==
    /\ mainPc = "close"
    /\ IF startChan \in closed
       THEN /\ mainPc' = "panic"
            /\ UNCHANGED closed
       ELSE /\ mainPc' = "make"
            /\ closed' = closed \cup {startChan}
    /\ UNCHANGED << tokenLines, i, cycle, connectedDevices, finalDataCount,
                    finalExitCount >>
    /\ UNCHANGED << schedVars, loadVars, toolVars >>
    /\ UNCHANGED << cfgVars, ClientNumber, startChan, ctxDone, wgCount, monVars,
                    counters, workerVars >>

\* the replacement step that keeps the old channel
KeepChannel(c) == c

\* make(chan struct{}): a channel that did not exist before
FreshChannel(c) == c + 1

\* main.go:134  startChan = make(chan struct{})
MakeStartChan ==
    /\ mainPc = "make"
    /\ startChan' = FreshChannel(startChan)
    /\ mainPc' = "cycleLog"
    /\ UNCHANGED << tokenLines, i, cycle, connectedDevices, finalDataCount,
                    finalExitCount >>
    /\ UNCHANGED << schedVars, loadVars, toolVars >>
    /\ UNCHANGED << cfgVars, ClientNumber, closed, ctxDone, wgCount, monVars,
                    counters, workerVars >>

\* main.go:137-144  sleep, log the running total, cycle++ and the loop test
CycleLog ==
    /\ mainPc = "cycleLog"
    /\ cycle' = cycle + 1
    /\ mainPc' = IF cycle + 1 <= CycleCount THEN "close" ELSE "cancel"
    /\ UNCHANGED << tokenLines, i, connectedDevices, finalDataCount,
                    finalExitCount >>
    /\ UNCHANGED << schedVars, loadVars, toolVars >>
    /\ UNCHANGED << cfgVars, ClientNumber, startChan, closed, ctxDone, wgCount,
                    monVars, counters, workerVars >>

\* main.go:147  cancel() after the cycle loop
Cancel ==
    /\ mainPc = "cancel"
    /\ ctxDone' = TRUE
    /\ mainPc' = "wait"
    /\ UNCHANGED << tokenLines, i, cycle, connectedDevices, finalDataCount,
                    finalExitCount >>
    /\ UNCHANGED << schedVars, loadVars, toolVars >>
    /\ UNCHANGED << cfgVars, ClientNumber, startChan, closed, wgCount, monVars,
                    counters, workerVars >>

\* main.go:152  wg.Wait()
WaitWorkers ==
    /\ mainPc = "wait"
    /\ WaitReturns(wgCount)
    /\ mainPc' = "final"
    /\ UNCHANGED << tokenLines, i, cycle, connectedDevices, finalDataCount,
                    finalExitCount >>
    /\ UNCHANGED << schedVars, loadVars, toolVars >>
    /\ UNCHANGED << cfgVars, ClientNumber, startChan, closed, ctxDone, wgCount,
                    monVars, counters, workerVars >>

\* main.go:155-156  the final loads of dataCount and exitCount
FinalStats ==
    /\ mainPc = "final"
    /\ finalDataCount' = dataCount
    /\ finalExitCount' = exitCount
    /\ mainPc' = "report"
    /\ UNCHANGED << tokenLines, i, cycle, connectedDevices >>
    /\ UNCHANGED << schedVars, loadVars, toolVars >>
    /\ UNCHANGED << cfgVars, ClientNumber, startChan, closed, ctxDone, wgCount,
                    monVars, counters, workerVars >>

\* main.go:159-169  print the report and return
Report ==
    /\ mainPc = "report"
    /\ mainPc' = "done"
    /\ UNCHANGED << tokenLines, i, cycle, connectedDevices, finalDataCount,
                    finalExitCount >>
    /\ UNCHANGED << schedVars, loadVars, toolVars >>
    /\ UNCHANGED << cfgVars, ClientNumber, startChan, closed, ctxDone, wgCount,
                    monVars, counters, workerVars >>

MainStep ==
    \/ ReadTokenFile
    \/ StartMonitor
    \/ Clamp
    \/ SpawnWorker
    \/ SettleSample
    \/ EarlyCancel
    \/ EarlyWait
    \/ CloseStartChan
    \/ MakeStartChan
    \/ CycleLog
    \/ Cancel
    \/ WaitWorkers
    \/ FinalStats
    \/ Report

(* ------------------- the workers: connectAndPublish -------------------- *)
\* a Connect that counts every attempt, failed or not
ConnectCountingFailures(w) ==
    /\ wpc[w] = "connect"
    /\ \E ok \in BOOLEAN :
         wpc' = [wpc EXCEPT ![w] = IF ok THEN "select" ELSE "exiting"]
    /\ successNum' = successNum + 1
    /\ UNCHANGED << dataCount, exitCount, msgCount, username, myChan, lastRel,
                    relCnt, lastFailed >>
    /\ UNCHANGED << schedVars, loadVars, toolVars >>
    /\ UNCHANGED << cfgVars, ClientNumber, mainVars, startChan, closed, ctxDone,
                    wgCount, monVars >>

\* a Connect whose failure path returns past the deferred exit count
ConnectFailureSkipsExitCount(w) ==
    /\ wpc[w] = "connect"
    /\ \E ok \in BOOLEAN :
         IF ok
         THEN /\ successNum' = successNum + 1
              /\ wpc' = [wpc EXCEPT ![w] = "select"]
         ELSE /\ wpc' = [wpc EXCEPT ![w] = "done"]
              /\ UNCHANGED successNum
    /\ UNCHANGED << dataCount, exitCount, msgCount, username, myChan, lastRel,
                    relCnt, lastFailed >>
    /\ UNCHANGED << schedVars, loadVars, toolVars >>
    /\ UNCHANGED << cfgVars, ClientNumber, mainVars, startChan, closed, ctxDone,
                    wgCount, monVars >>

\* main.go:218-226  client.Connect(); token.Wait(): failure returns,
\* success adds 1 to successNum and enters the loop
Connect(w) ==
    /\ wpc[w] = "connect"
    /\ \E ok \in BOOLEAN :
         IF ok
         THEN /\ successNum' = successNum + 1
              /\ wpc' = [wpc EXCEPT ![w] = "select"]
         ELSE /\ wpc' = [wpc EXCEPT ![w] = "exiting"]
              /\ UNCHANGED successNum
    /\ UNCHANGED << dataCount, exitCount, msgCount, username, myChan, lastRel,
                    relCnt, lastFailed >>
    /\ UNCHANGED << schedVars, loadVars, toolVars >>
    /\ UNCHANGED << cfgVars, ClientNumber, mainVars, startChan, closed, ctxDone,
                    wgCount, monVars >>

\* main.go:232-236  select: ctx.Done() is taken when ready, else default
Select(w) ==
    /\ wpc[w] = "select"
    /\ wpc' = [wpc EXCEPT ![w] = IF ctxDone THEN "exiting" ELSE "recv"]
    /\ lastFailed' = [lastFailed EXCEPT ![w] = IF ctxDone THEN FALSE ELSE @]
    /\ UNCHANGED << username, myChan, lastRel, relCnt >>
    /\ UNCHANGED << schedVars, loadVars, toolVars >>
    /\ UNCHANGED << cfgVars, ClientNumber, mainVars, startChan, closed, ctxDone,
                    wgCount, monVars, counters >>

\* main.go:237  the operand of <-startChan: the worker reads the global.
\* main writes startChan (main.go:134) and the workers read it here with no
\* synchronisation between the two, a data race: the read returns the old
\* or the new channel, which are the two orders of this step and main's
\* MakeStartChan.  MaxRelease bounds how often the worker finds the channel
\* that released it last still in place; main's next step replaces it.
ReadStartChan(w) ==
    /\ wpc[w] = "recv"
    /\ (startChan \in closed /\ startChan = lastRel[w]) => relCnt[w] < MaxRelease
    /\ myChan' = [myChan EXCEPT ![w] = startChan]
    /\ lastFailed' = [lastFailed EXCEPT ![w] = IF startChan = lastRel[w] THEN @ ELSE FALSE]
    /\ wpc' = [wpc EXCEPT ![w] = "blocked"]
    /\ UNCHANGED << username, lastRel, relCnt >>
    /\ UNCHANGED << schedVars, loadVars, toolVars >>
    /\ UNCHANGED << cfgVars, ClientNumber, mainVars, startChan, closed, ctxDone,
                    wgCount, monVars, counters >>

\* a receive that also selects on ctx.Done()
ReceiveOrCancel(w) ==
    /\ wpc[w] = "blocked"
    /\ \/ /\ myChan[w] \in closed
          /\ lastRel' = [lastRel EXCEPT ![w] = myChan[w]]
          /\ relCnt' = [relCnt EXCEPT ![w] = IF myChan[w] = lastRel[w] THEN @ + 1 ELSE 1]
          /\ wpc' = [wpc EXCEPT ![w] = "publish"]
       \/ /\ ctxDone
          /\ wpc' = [wpc EXCEPT ![w] = "exiting"]
          /\ UNCHANGED << lastRel, relCnt >>
    /\ UNCHANGED << username, myChan, lastFailed >>
    /\ UNCHANGED << schedVars, loadVars, toolVars >>
    /\ UNCHANGED << cfgVars, ClientNumber, mainVars, startChan, closed, ctxDone,
                    wgCount, monVars, counters >>

\* main.go:237  the receive: completes once the channel read is closed
Receive(w) ==
    /\ wpc[w] = "blocked"
    /\ myChan[w] \in closed
    /\ lastRel' = [lastRel EXCEPT ![w] = myChan[w]]
    /\ relCnt' = [relCnt EXCEPT ![w] = IF myChan[w] = lastRel[w] THEN @ + 1 ELSE 1]
    /\ wpc' = [wpc EXCEPT ![w] = "publish"]
    /\ UNCHANGED << username, myChan, lastFailed >>
    /\ UNCHANGED << schedVars, loadVars, toolVars >>
    /\ UNCHANGED << cfgVars, ClientNumber, mainVars, startChan, closed, ctxDone,
                    wgCount, monVars, counters >>

\* main.go:240-261  updateSensorData, json.Marshal (continue on error),
\* client.Publish, token.Wait; on success dataCount += 10
Publish(w) ==
    /\ wpc[w] = "publish"
    /\ \E outcome \in {"marshalErr", "publishErr", "ok"} :
         /\ dataCount' = IF outcome = "ok" THEN dataCount + PointsPerPublish
                         ELSE dataCount
         /\ lastFailed' = [lastFailed EXCEPT ![w] = (outcome # "ok")]
    /\ wpc' = [wpc EXCEPT ![w] = "select"]
    /\ UNCHANGED << successNum, exitCount, msgCount, username, myChan, lastRel,
                    relCnt >>
    /\ UNCHANGED << schedVars, loadVars, toolVars >>
    /\ UNCHANGED << cfgVars, ClientNumber, mainVars, startChan, closed, ctxDone,
                    wgCount, monVars >>

\* the deferred count adding 2
DeferExitCountTwice(w) ==
    /\ wpc[w] = "exiting"
    /\ exitCount' = exitCount + 2
    /\ wpc' = [wpc EXCEPT ![w] = "done"]
    /\ UNCHANGED << successNum, dataCount, msgCount, username, myChan, lastRel,
                    relCnt, lastFailed >>
    /\ UNCHANGED << schedVars, loadVars, toolVars >>
    /\ UNCHANGED << cfgVars, ClientNumber, mainVars, startChan, closed, ctxDone,
                    wgCount, monVars >>

\* main.go:202-204, 226  the deferred calls but the first: client.Disconnect
\* (when connected), then exitCount += 1
DeferExitCount(w) ==
    /\ wpc[w] = "exiting"
    /\ exitCount' = exitCount + 1
    /\ wpc' = [wpc EXCEPT ![w] = "done"]
    /\ UNCHANGED << successNum, dataCount, msgCount, username, myChan, lastRel,
                    relCnt, lastFailed >>
    /\ UNCHANGED << schedVars, loadVars, toolVars >>
    /\ UNCHANGED << cfgVars, ClientNumber, mainVars, startChan, closed, ctxDone,
                    wgCount, monVars >>

\* main.go:201  the first deferred call, run last: wg.Done()
DeferDone(w) ==
    /\ wpc[w] = "done"
    /\ wgCount' = wgCount - 1
    /\ wpc' = [wpc EXCEPT ![w] = "returned"]
    /\ UNCHANGED << username, myChan, lastRel, relCnt, lastFailed >>
    /\ UNCHANGED << schedVars, loadVars, toolVars >>
    /\ UNCHANGED << cfgVars, ClientNumber, mainVars, startChan, closed, ctxDone,
                    monVars, counters >>

WorkerStep(w) ==
    \/ Connect(w)
    \/ Select(w)
    \/ ReadStartChan(w)
    \/ Receive(w)
    \/ Publish(w)
    \/ DeferExitCount(w)
    \/ DeferDone(w)

(* ---------------------- the monitor: MonitorLogs ----------------------- *)
\* SELECT COUNT(*) FROM telemetry_datas: the counts the store may return
StoredCounts == { k * PointsPerPublish : k \in 0 .. MaxStored }

\* main.go:303-308  sql.Open; on error close(initDone) and return
MonOpen ==
    /\ monPc = "open"
    /\ \E ok \in BOOLEAN :
         IF ok
         THEN /\ monPc' = "ping"
              /\ UNCHANGED initDoneCloses
         ELSE /\ initDoneCloses' = initDoneCloses + 1
              /\ monPc' = "returned"
    /\ UNCHANGED << initialCount, lastDBCount, lastSentCount, lastMsgCount,
                    lastTick, successRate, totalSuccessRate, monReports >>
    /\ UNCHANGED << schedVars, loadVars, toolVars >>
    /\ UNCHANGED << cfgVars, ClientNumber, mainVars, startChan, closed, ctxDone,
                    wgCount, counters, workerVars >>

\* a failed probe that returns without the signal
MonPingSilentFailure ==
    /\ monPc = "ping"
    /\ \E ok \in BOOLEAN :
         monPc' = IF ok THEN "baseline" ELSE "returned"
    /\ UNCHANGED << initDoneCloses, initialCount, lastDBCount, lastSentCount,
                    lastMsgCount, lastTick, successRate, totalSuccessRate,
                    monReports >>
    /\ UNCHANGED << schedVars, loadVars, toolVars >>
    /\ UNCHANGED << cfgVars, ClientNumber, mainVars, startChan, closed, ctxDone,
                    wgCount, counters, workerVars >>

\* main.go:312-319  db.PingContext; on error close(initDone) and return
MonPing ==
    /\ monPc = "ping"
    /\ \E ok \in BOOLEAN :
         IF ok
         THEN /\ monPc' = "baseline"
              /\ UNCHANGED initDoneCloses
         ELSE /\ initDoneCloses' = initDoneCloses + 1
              /\ monPc' = "returned"
    /\ UNCHANGED << initialCount, lastDBCount, lastSentCount, lastMsgCount,
                    lastTick, successRate, totalSuccessRate, monReports >>
    /\ UNCHANGED << schedVars, loadVars, toolVars >>
    /\ UNCHANGED << cfgVars, ClientNumber, mainVars, startChan, closed, ctxDone,
                    wgCount, counters, workerVars >>

\* a baseline whose sent snapshot starts from zero
MonBaselineFromZero ==
    /\ monPc = "baseline"
    /\ \E ok \in BOOLEAN, stored \in StoredCounts :
         /\ initialCount' = IF ok THEN stored ELSE 0
         /\ baselineFailed' = ~ ok
    /\ initialSentCount' = dataCount
    /\ lastDBCount' = initialCount'
    /\ lastSentCount' = 0
    /\ lastMsgCount' = msgCount
    /\ monPc' = "signal"
    /\ UNCHANGED << initDoneCloses, lastTick, successRate, totalSuccessRate,
                    sentDiffSum, totalStored >>
    /\ UNCHANGED << schedVars, loadVars, toolVars >>
    /\ UNCHANGED << cfgVars, ClientNumber, mainVars, startChan, closed, ctxDone,
                    wgCount, counters, workerVars >>

\* a baseline whose failed query makes the monitor give up
MonBaselineFailureReturns ==
    /\ monPc = "baseline"
    /\ \E ok \in BOOLEAN, stored \in StoredCounts :
         /\ initialCount' = IF ok THEN stored ELSE 0
         /\ baselineFailed' = ~ ok
         /\ monPc' = IF ok THEN "signal" ELSE "returned"
         /\ initDoneCloses' = IF ok THEN initDoneCloses ELSE initDoneCloses + 1
    /\ initialSentCount' = dataCount
    /\ lastDBCount' = initialCount'
    /\ lastSentCount' = initialSentCount'
    /\ lastMsgCount' = msgCount
    /\ UNCHANGED << lastTick, successRate, totalSuccessRate, sentDiffSum,
                    totalStored >>
    /\ UNCHANGED << schedVars, loadVars, toolVars >>
    /\ UNCHANGED << cfgVars, ClientNumber, mainVars, startChan, closed, ctxDone,
                    wgCount, counters, workerVars >>

\* main.go:324-338  the initial count (0 when the query fails) and the
\* snapshot of the counters
MonBaseline ==
    /\ monPc = "baseline"
    /\ \E ok \in BOOLEAN, stored \in StoredCounts :
         /\ initialCount' = IF ok THEN stored ELSE 0
         /\ baselineFailed' = ~ ok
    /\ initialSentCount' = dataCount
    /\ lastDBCount' = initialCount'
    /\ lastSentCount' = initialSentCount'
    /\ lastMsgCount' = msgCount
    /\ monPc' = "signal"
    /\ UNCHANGED << initDoneCloses, lastTick, successRate, totalSuccessRate,
                    sentDiffSum, totalStored >>
    /\ UNCHANGED << schedVars, loadVars, toolVars >>
    /\ UNCHANGED << cfgVars, ClientNumber, mainVars, startChan, closed, ctxDone,
                    wgCount, counters, workerVars >>

\* main.go:346-352  close(initDone); start the ticker
MonSignal ==
    /\ monPc = "signal"
    /\ initDoneCloses' = initDoneCloses + 1
    /\ monPc' = "ticking"
    /\ UNCHANGED << initialCount, lastDBCount, lastSentCount, lastMsgCount,
                    lastTick, successRate, totalSuccessRate, monReports >>
    /\ UNCHANGED << schedVars, loadVars, toolVars >>
    /\ UNCHANGED << cfgVars, ClientNumber, mainVars, startChan, closed, ctxDone,
                    wgCount, counters, workerVars >>

\* main.go:383-390, 393-400  a ratio in percent (rounded down): 0 when
\* nothing was sent, capped at 100
RatePercent(stored, sent) ==
    IF sent > 0
    THEN IF stored * 100 > 100 * sent THEN 100 ELSE (stored * 100) \div sent
    ELSE 0

\* a failed query that moves the snapshot on
AdvancedByFailedQuery(last, current) == current

\* main.go:366-369  continue: the update at main.go:459-461 is skipped
KeptByFailedQuery(last, current) == last

\* main.go:355-461  one tick: load the counters, query the store, then
\* either skip the tick or report and move the snapshot
MonTick ==
    /\ monPc = "ticking"
    /\ \E ok \in BOOLEAN, currentDBCount \in StoredCounts :
         LET currentSentCount == dataCount
             currentMsgCount == msgCount
             sentDiff == currentSentCount - lastSentCount
             dbDiff == currentDBCount - lastDBCount
         IN  IF ok
             THEN /\ successRate' = RatePercent(dbDiff, sentDiff)
                  /\ totalSuccessRate' =
                       RatePercent(currentDBCount - initialCount, currentSentCount)
                  /\ lastDBCount' = currentDBCount
                  /\ lastSentCount' = currentSentCount
                  /\ lastMsgCount' = currentMsgCount
                  /\ sentDiffSum' = sentDiffSum + sentDiff
                  /\ totalStored' = currentDBCount - initialCount
                  /\ lastTick' = "reported"
             ELSE /\ lastSentCount' = KeptByFailedQuery(lastSentCount, currentSentCount)
                  /\ lastMsgCount' = KeptByFailedQuery(lastMsgCount, currentMsgCount)
                  /\ lastTick' = "skipped"
                  /\ UNCHANGED << lastDBCount, successRate, totalSuccessRate,
                                  sentDiffSum, totalStored >>
    /\ UNCHANGED << monPc, initDoneCloses, initialCount, initialSentCount,
                    baselineFailed >>
    /\ UNCHANGED << schedVars, loadVars, toolVars >>
    /\ UNCHANGED << cfgVars, ClientNumber, mainVars, startChan, closed, ctxDone,
                    wgCount, counters, workerVars >>

MonitorStep ==
    \/ MonOpen
    \/ MonPing
    \/ MonBaseline
    \/ MonSignal
    \/ MonTick

(* ----------------------- the cycle loop with a clock ------------------- *)
runVars == << cfgVars, ClientNumber, mainVars, startChan, closed, ctxDone,
              wgCount, counters, workerVars, monVars >>

\* main.go:131-134  close(startChan); startChan = make(...): broadcast
\* number schedCycle happens at the current time
TimedBroadcast ==
    /\ schedPc = "close"
    /\ lastBroadcast' = now
    /\ firstBroadcast' = IF schedCycle = 1 THEN now ELSE firstBroadcast
    /\ schedPc' = "sleep"
    /\ UNCHANGED << now, DataInterval, schedCycleCount, schedCycle >>
    /\ UNCHANGED << runVars, loadVars, toolVars >>

\* main.go:137  time.Sleep(AppConfig.Test.DataInterval)
TimedSleep ==
    /\ schedPc = "sleep"
    /\ now' = now + DataInterval
    /\ schedPc' = "log"
    /\ UNCHANGED << DataInterval, schedCycleCount, schedCycle, firstBroadcast,
                    lastBroadcast >>
    /\ UNCHANGED << runVars, loadVars, toolVars >>

\* main.go:129, 139-144  the rest of the iteration (load, log) takes some
\* time; cycle++ and the loop test
TimedLog ==
    /\ schedPc = "log"
    /\ \E delay \in 0 .. MaxDelay : now' = now + delay
    /\ schedCycle' = schedCycle + 1
    /\ schedPc' = IF schedCycle + 1 <= schedCycleCount THEN "close" ELSE "cancel"
    /\ UNCHANGED << DataInterval, schedCycleCount, firstBroadcast, lastBroadcast >>
    /\ UNCHANGED << runVars, loadVars, toolVars >>

TimedStep ==
    \/ TimedBroadcast
    \/ TimedSleep
    \/ TimedLog

\* main.go:126-129  main enters the cycle loop
ClockInit ==
    /\ now = 0
    /\ DataInterval \in 1 .. MaxInterval
    /\ schedCycleCount \in 0 .. MaxSchedCycles
    /\ schedCycle = 1
    /\ schedPc = IF 1 <= schedCycleCount THEN "close" ELSE "cancel"
    /\ firstBroadcast = -1
    /\ lastBroadcast = -1
    /\ RunInit
    /\ tokenFile = [status |-> "missing", lines |-> << >>]
    /\ cfgClientNumber = 0
    /\ CycleCount = 0
    /\ MonIdle
    /\ LoadIdle
    /\ ToolIdle

ClockSpec == ClockInit /\ [][TimedStep]_vars

(* ------------------------------ LoadConfig ----------------------------- *)
\* config.go:116-179  the test that lets a flag replace the file's value
Overrides(p, v) ==
    IF p \in StringParams THEN v # ""
    ELSE IF p = "QoS" THEN v >= 0
    ELSE v > 0

\* config.go:116-179
overrideConfigWithFlags(cfg, fl) ==
    [p \in Params |-> IF Overrides(p, fl[p]) THEN fl[p] ELSE cfg[p]]

\* config.go:72-97  (after flag.Parse and the read of the file)
LoadConfig(cfg, fl) ==
    LET c == overrideConfigWithFlags(cfg, fl)
    IN  [c EXCEPT !["DataPointCount"] = EffectiveDataPointCount(@)]

\* config.go:72-113  LoadConfig: a file that cannot be read leaves the zero
\* values in place
LoadConfigStep ==
    /\ loadPc = "start"
    /\ loadedConfig' = LoadConfig(IF fileRead THEN fileConfig ELSE ZeroConfig, flagValue)
    /\ loadPc' = "loaded"
    /\ UNCHANGED << fileRead, fileConfig, flagGiven, flagValue >>
    /\ UNCHANGED << runVars, schedVars, toolVars >>

\* one parameter is varied in the file and on the command line, the others
\* are set in the file and have no flag
LoadInit ==
    /\ loadPc = "start"
    /\ loadedConfig = ZeroConfig
    /\ fileRead \in BOOLEAN
    /\ \E p \in Params :
         /\ \E v \in ParamValues(p) : fileConfig = [BaseConfig EXCEPT ![p] = v]
         /\ \E given \in BOOLEAN, v \in ParamValues(p) :
              /\ flagGiven = IF given THEN {p} ELSE {}
              /\ flagValue = [q \in Params |->
                                IF given /\ q = p THEN v ELSE FlagDefault(q)]
    /\ RunInit
    /\ tokenFile = [status |-> "missing", lines |-> << >>]
    /\ cfgClientNumber = 0
    /\ CycleCount = 0
    /\ MonIdle
    /\ SchedIdle
    /\ ToolIdle

ConfigSpec == LoadInit /\ [][LoadConfigStep]_vars

(* ------------------------- create_device: main ------------------------- *)
otherVars == << runVars, schedVars, loadVars >>

\* create_device/main.go:227-228  uuid.New(): the ID and the token of the
\* device generated for index k
DeviceID(k) == "id" \o ToString(k)
DeviceToken(k) == "tok" \o ToString(k)

\* the lines an output file holds before the run
OldLines(kind, n) == [k \in 1 .. n |-> kind \o ToString(k)]

\* create_device/main.go:68-77  connectDB; os.MkdirAll; log.Fatalf on error
ToolSetup ==
    /\ toolPc = "setup"
    /\ \E ok \in BOOLEAN : toolPc' = IF ok THEN "begin" ELSE "setupFailed"
    /\ UNCHANGED << toolInputs, di, batchCount, devices, txPending, committed,
                    commits, idFileContent, tokenFileContent >>
    /\ UNCHANGED otherVars

\* create_device/main.go:156-159  the effective batch size
BatchCount(b, n) == IF b <= 0 \/ b > n THEN n ELSE b

\* create_device/main.go:124-161  db.Begin, tx.Prepare, batchCount, loop entry
BeginTx ==
    /\ toolPc = "begin"
    /\ \E ok \in BOOLEAN :
         IF ok
         THEN /\ batchCount' = BatchCount(batchSize, count)
              /\ toolPc' = IF 0 < count THEN "insert" ELSE "created"
         ELSE /\ toolPc' = "beginFailed"
              /\ UNCHANGED batchCount
    /\ di' = 0
    /\ devices' = << >>
    /\ UNCHANGED << toolInputs, txPending, committed, commits, idFileContent,
                    tokenFileContent >>
    /\ UNCHANGED otherVars

\* a commit test without the test for the last device
CommitDueOnFullBatchOnly(idx, b, n) == (idx + 1) % b = 0

\* create_device/main.go:181
CommitDue(idx, b, n) == (idx + 1) % b = 0 \/ idx = n - 1

\* create_device/main.go:163-181  generateDevice, append, stmt.Exec; on
\* error return nil (the deferred tx.Rollback() drops the open transaction)
InsertDevice ==
    /\ toolPc = "insert"
    /\ \E ok \in BOOLEAN :
         IF ok
         THEN /\ devices' = Append(devices, di)
              /\ txPending' = txPending \cup {di}
              /\ IF CommitDue(di, batchCount, count)
                 THEN /\ toolPc' = "commit"
                      /\ UNCHANGED di
                 ELSE /\ toolPc' = IF di + 1 < count THEN "insert" ELSE "created"
                      /\ di' = di + 1
         ELSE /\ devices' = << >>
              /\ txPending' = {}
              /\ toolPc' = "insertFailed"
              /\ UNCHANGED di
    /\ UNCHANGED << toolInputs, batchCount, committed, commits, idFileContent,
                    tokenFileContent >>
    /\ UNCHANGED otherVars

\* create_device/main.go:182-191, 216-222  tx.Commit, progress log, then a
\* new transaction or the return of the device list
CommitTx ==
    /\ toolPc = "commit"
    /\ \E ok \in BOOLEAN :
         IF ok
         THEN /\ committed' = committed \cup txPending
              /\ commits' = commits + 1
              /\ toolPc' = IF di < count - 1 THEN "renew" ELSE "created"
              /\ UNCHANGED devices
         ELSE /\ devices' = << >>
              /\ toolPc' = "commitFailed"
              /\ UNCHANGED << committed, commits >>
    /\ txPending' = {}
    /\ UNCHANGED << toolInputs, di, batchCount, idFileContent, tokenFileContent >>
    /\ UNCHANGED otherVars

\* create_device/main.go:192-214, 161  db.Begin, tx.Prepare for the next
\* batch; i++
RenewTx ==
    /\ toolPc = "renew"
    /\ \E ok \in BOOLEAN :
         IF ok
         THEN /\ di' = di + 1
              /\ toolPc' = "insert"
              /\ UNCHANGED devices
         ELSE /\ devices' = << >>
              /\ toolPc' = "renewFailed"
              /\ UNCHANGED di
    /\ UNCHANGED << toolInputs, batchCount, txPending, committed, commits,
                    idFileContent, tokenFileContent >>
    /\ UNCHANGED otherVars

\* create_device/main.go:287-300  WriteFile: os.Create truncates the file;
\* the first `written` lines reach it
WriteFile(old, lines, opened, written) ==
    IF opened THEN SubSeq(lines, 1, written) ELSE old

\* create_device/main.go:303-316  AppendFile: O_APPEND keeps the old lines
AppendFile(old, lines, opened, written) ==
    IF opened THEN old \o SubSeq(lines, 1, written) ELSE old

\* create_device/main.go:264-267  writeFunc
writeFunc(old, lines, opened, written) ==
    IF appendMode THEN AppendFile(old, lines, opened, written)
    ELSE WriteFile(old, lines, opened, written)

\* the error result of WriteFile and AppendFile
WriteError(lines, opened, written) == ~ opened \/ written < Len(lines)

\* the ways a write of `lines` can end: the file cannot be opened, or it is
\* opened and some or all of the lines get written
WriteOutcomes(lines) ==
    { << FALSE, 0 >> } \cup { << TRUE, k >> : k \in 0 .. Len(lines) }

\* create_device/main.go:84-87, 254-274  saveDeviceInfo: the ID file
SaveIDs ==
    /\ toolPc = "created"
    /\ LET idList == [k \in 1 .. Len(devices) |-> DeviceID(devices[k])]
       IN  \E o \in WriteOutcomes(idList) :
             /\ idFileContent' = writeFunc(idFileContent, idList, o[1], o[2])
             /\ toolPc' = IF WriteError(idList, o[1], o[2]) THEN "saveFailed"
                          ELSE "saveTokens"
    /\ UNCHANGED << toolInputs, di, batchCount, devices, txPending, committed,
                    commits, tokenFileContent >>
    /\ UNCHANGED otherVars

\* create_device/main.go:276-283, 91  saveDeviceInfo: the token file
SaveTokens ==
    /\ toolPc = "saveTokens"
    /\ LET tokenList == [k \in 1 .. Len(devices) |-> DeviceToken(devices[k])]
       IN  \E o \in WriteOutcomes(tokenList) :
             /\ tokenFileContent' = writeFunc(tokenFileContent, tokenList, o[1], o[2])
             /\ toolPc' = IF WriteError(tokenList, o[1], o[2]) THEN "saveFailed"
                          ELSE "done"
    /\ UNCHANGED << toolInputs, di, batchCount, devices, txPending, committed,
                    commits, idFileContent >>
    /\ UNCHANGED otherVars

ToolStep ==
    \/ ToolSetup
    \/ BeginTx
    \/ InsertDevice
    \/ CommitTx
    \/ RenewTx
    \/ SaveIDs
    \/ SaveTokens

\* create_device/main.go:20-40, 56-65  the flags and the output files when
\* main starts
ToolInit ==
    /\ count \in 0 .. MaxDevices
    /\ batchSize \in -1 .. MaxBatch
    /\ appendMode \in BOOLEAN
    /\ idFileBefore \in { OldLines("oldid", n) : n \in 0 .. MaxOldLines }
    /\ tokenFileBefore \in { OldLines("oldtok", n) : n \in 0 .. MaxOldLines }
    /\ idFileContent = idFileBefore
    /\ tokenFileContent = tokenFileBefore
    /\ toolPc = "setup"
    /\ di = 0
    /\ batchCount = 0
    /\ devices = << >>
    /\ txPending = {}
    /\ committed = {}
    /\ commits = 0
    /\ RunInit
    /\ tokenFile = [status |-> "missing", lines |-> << >>]
    /\ cfgClientNumber = 0
    /\ CycleCount = 0
    /\ MonIdle
    /\ SchedIdle
    /\ LoadIdle

ToolSpec == ToolInit /\ [][ToolStep]_vars

(* --------------------------- specifications ---------------------------- *)
Next ==
    \/ MainStep
    \/ \E w \in Workers : WorkerStep(w)

Spec == Init /\ [][Next]_vars

\* Goroutines are scheduled fairly, sleeps end, and Connect and Publish
\* return (the client library bounds both).
FairSpec ==
    /\ Spec
    /\ WF_vars(MainStep)
    /\ \A w \in Workers : WF_vars(WorkerStep(w))

\* the load generator together with its monitor
MonNext ==
    \/ MainStep
    \/ \E w \in Workers : WorkerStep(w)
    \/ MonitorStep

\* the monitor is explored next to the smallest run that moves the counters
\* it reads: one device, one cycle
MonInit ==
    /\ Init
    /\ tokenFile = [status |-> "ok", lines |-> << Token(1) >>]
    /\ cfgClientNumber = 1
    /\ CycleCount = 1

MonSpec == MonInit /\ [][MonNext]_vars

\* the ticker keeps firing and the database calls return
FairMonSpec ==
    /\ MonSpec
    /\ WF_vars(MainStep)
    /\ \A w \in Workers : WF_vars(WorkerStep(w))
    /\ WF_vars(MonitorStep)

TypeOK ==
    /\ mainPc \in {"readFile", "fatal", "start", "clamp", "spawn", "settle",
                   "earlyCancel", "earlyWait", "returned", "close", "make",
                   "cycleLog", "cancel", "wait", "final", "report", "done",
                   "panic"}
    /\ wpc \in [Workers -> {"idle", "connect", "select", "recv", "blocked",
                            "publish", "exiting", "done", "returned"}]
    /\ startChan \in -1 .. MaxCycles
    /\ closed \subseteq Chans
    /\ wgCount \in 0 .. MaxLines
    /\ lastRel \in [Workers -> -1 .. MaxCycles]
    /\ relCnt \in [Workers -> 0 .. MaxRelease]
    /\ lastFailed \in [Workers -> BOOLEAN]

(* ------------------------------ properties ----------------------------- *)
Spawned == { w \in Workers : wpc[w] # "idle" }
Returned == { w \in Workers : wpc[w] = "returned" }
AfterLoop == {"cancel", "wait", "final", "report", "done"}
InLoop == {"close", "make", "cycleLog"}

\* C1: once main has issued cancel() after the cycle loop, every spawned
\* worker eventually returns (so wg.Wait() completes), on every interleaving.
C1_CancelDrainsWorkers ==
    (mainPc = "wait" /\ Cardinality(closed) >= 1) ~> (Spawned \subseteq Returned)

\* C2: in every reachable state the points counted as sent are at most
\* 10 x (connected workers) x (cycle count).
C2_SentAtMostWorkersTimesCycles ==
    dataCount <= PointsPerPublish * successNum * CycleCount

\* C3: no worker is released (and so publishes) twice by one and the same
\* barrier broadcast.
C3_OneReleasePerBroadcast ==
    \A w \in Workers : relCnt[w] <= 1

\* C4: a worker that was in the loop when a broadcast fired never skips it:
\* a worker released last by channel c never waits on an unfired channel
\* later than c + 1, the channel of the very next broadcast.
C4_NoCycleSkipped ==
    \A w \in Workers :
        (wpc[w] = "blocked" /\ lastRel[w] # -1 /\ myChan[w] \notin closed)
            => myChan[w] <= lastRel[w] + 1

\* C5: when the settle-time sample is non-zero the coordinator performs
\* exactly CycleCount broadcasts, never closes a channel twice, and no step
\* of the cycle loop waits for a worker.
C5_ExactlyCycleCountBroadcasts ==
    /\ mainPc # "panic"
    /\ mainPc \in (InLoop \cup AfterLoop) => connectedDevices > 0
    /\ mainPc \in InLoop =>
         /\ cycle \in 1 .. CycleCount
         /\ Cardinality(closed) = (IF mainPc = "close" THEN cycle - 1 ELSE cycle)
         /\ ENABLED MainStep
    /\ mainPc \in AfterLoop => Cardinality(closed) = CycleCount

\* C5 witness: all broadcasts of a two-cycle run are done while a worker is
\* still inside a publish.
C5_Witness ==
    /\ mainPc = "cancel"
    /\ CycleCount = 2
    /\ Cardinality(closed) = 2
    /\ \E w \in Workers : wpc[w] = "publish"

\* C6: in every reachable state the sent-point counter equals the
\* sent-message counter times the configured points per message.
C6_PointsEqualMessagesTimesConfigured ==
    dataCount = msgCount * DataPointCount

\* C7: when the settle-time sample is zero, main cancels, every worker
\* exits, wg.Wait() returns and the run ends.
C7_ZeroConnectedRunEnds ==
    (mainPc = "earlyCancel") ~> (mainPc = "returned" /\ Spawned \subseteq Returned)

\* C8: the final statistics are read only after cancel() and after every
\* spawned worker has returned, and the values read stay equal to the
\* counters from then on.
C8_SummaryAfterAllWorkersReturned ==
    /\ mainPc \in {"final", "report", "done"} =>
         /\ ctxDone
         /\ Spawned \subseteq Returned
    /\ mainPc \in {"report", "done"} =>
         /\ finalDataCount = dataCount
         /\ finalExitCount = exitCount

\* C8 witness: the report of a run in which two workers exited and points
\* were sent.
C8_Witness ==
    /\ mainPc = "report"
    /\ finalExitCount = 2
    /\ finalDataCount > 0

\* C9: the workers spawned are workers 0 .. n-1 with
\* n = min(configured count, available identities) (0 when the configured
\* count is <= 0); worker i holds identity i of the list and no identity is
\* held by two workers; a shortfall does not abort the run.
C9_SpawnCount ==
    LET n == IF cfgClientNumber <= 0 THEN 0
             ELSE Min(cfgClientNumber, Len(tokenLines))
    IN  /\ Spawned = 0 .. (i - 1)
        /\ \A w \in Spawned : username[w] = tokenLines[w + 1]
        /\ \A v, w \in Spawned : v # w => username[v] # username[w]
        /\ mainPc = "spawn" => Cardinality(Spawned) < n
        /\ mainPc \notin {"readFile", "fatal", "start", "clamp", "spawn"} =>
             Cardinality(Spawned) = n

\* C9 witness: two identities, one configured client, after the spawn loop.
C9_Witness ==
    /\ mainPc = "settle"
    /\ Len(tokenLines) = 2
    /\ cfgClientNumber = 1
    /\ Cardinality(Spawned) = 1

\* C9 witness of the shortfall: more clients configured than identities.
C9_WitnessShortfall ==
    /\ mainPc = "settle"
    /\ Len(tokenLines) = 1
    /\ cfgClientNumber = 2
    /\ Cardinality(Spawned) = 1

\* C10: a token file that is missing, unreadable, empty or all blank lines
\* stops main at the fatal error: no monitor, no channel, no worker, no
\* counter touched.
C10_FatalBeforeAnyWorker ==
    /\ mainPc = "fatal" =>
         /\ monPc = "notStarted"
         /\ Spawned = {}
         /\ wgCount = 0
         /\ startChan = -1
         /\ counters = << 0, 0, 0, 0 >>
    /\ (\/ tokenFile.status # "ok"
        \/ \A k \in 1 .. Len(tokenFile.lines) : tokenFile.lines[k] = "")
         => mainPc \in {"readFile", "fatal"}

\* C10 witness: the fatal stop on a file of blank lines only.
C10_Witness ==
    /\ mainPc = "fatal"
    /\ tokenFile.status = "ok"
    /\ Len(tokenFile.lines) > 0

LoopStates == {"select", "recv", "blocked", "publish"}
ExitStates == {"exiting", "done", "returned"}

\* C11: a worker whose connection fails leaves successNum alone, never
\* enters the loop (no wait on the barrier, no publish) and stops nobody
\* else; a worker whose connection succeeds adds exactly 1; nothing else
\* changes successNum, which never exceeds the number of spawned workers.
C11_ConnectFailureIsolated ==
    /\ [](/\ successNum <= Cardinality(Spawned)
          /\ Cardinality({ w \in Workers : wpc[w] \in LoopStates }) <= successNum
          /\ \A w \in Workers :
               wpc[w] \in {"idle", "connect"} => (myChan[w] = -1 /\ lastRel[w] = -1))
    /\ [][/\ \A w \in Workers :
               /\ wpc[w] = "connect" => wpc'[w] \in {"connect", "select", "exiting"}
               /\ (wpc[w] = "connect" /\ wpc'[w] = "select") =>
                    successNum' = successNum + 1
               /\ (wpc[w] = "connect" /\ wpc'[w] = "exiting") =>
                    /\ successNum' = successNum
                    /\ ctxDone' = ctxDone
                    /\ mainPc' = mainPc
                    /\ \A v \in Workers \ {w} : wpc'[v] = wpc[v]
               /\ wpc[w] \in ExitStates =>
                    /\ wpc'[w] \in ExitStates
                    /\ myChan'[w] = myChan[w]
                    /\ lastRel'[w] = lastRel[w]
          /\ successNum' # successNum =>
               \E w \in Workers : wpc[w] = "connect" /\ wpc'[w] = "select"
         ]_vars

\* C11 witness: of two spawned workers one has failed to connect and has
\* returned, the other one connected and is publishing.
C11_Witness ==
    /\ Cardinality(Spawned) = 2
    /\ successNum = 1
    /\ \E v, w \in Workers :
         /\ wpc[v] = "publish"
         /\ wpc[w] = "returned"
         /\ lastRel[w] = -1

\* C12: after a failed publish the worker does not publish again for the
\* same broadcast: it is never back in a publish for the broadcast whose
\* attempt has just failed.
C12_NoRetryAfterFailedPublish ==
    \A w \in Workers : ~ (wpc[w] = "publish" /\ lastFailed[w])

\* C13: the shared counters never decrease, exitCount never exceeds the
\* number of spawned workers, and the point counter is never below the
\* message counter.
C13_CountersMonotone ==
    /\ [](/\ exitCount <= Cardinality(Spawned)
          /\ dataCount >= msgCount)
    /\ [][/\ successNum' >= successNum
          /\ dataCount' >= dataCount
          /\ msgCount' >= msgCount
          /\ exitCount' >= exitCount]_vars

\* C13 witness: both workers of a run have exited after points were sent.
C13_Witness ==
    /\ Cardinality(Spawned) = 2
    /\ exitCount = 2
    /\ dataCount > 0

\* C14: on every tick that reports, the interval ratio and the cumulative
\* ratio of the report lie in 0 .. 100, whatever counts the store returns.
C14_RatiosWithinRange ==
    /\ successRate \in 0 .. 100
    /\ totalSuccessRate \in 0 .. 100

\* C15: a tick whose store query fails makes no report, leaves the baseline
\* and the snapshot (last stored, last sent, last message count) as they
\* were and keeps the monitor ticking; the next tick whose query succeeds
\* reports against that unchanged snapshot.
C15_FailedQuerySkipsTick ==
    /\ [](lastTick = "skipped" => (monPc = "ticking" /\ ENABLED MonTick))
    /\ [][/\ lastTick' = "skipped" =>
               /\ monPc' = "ticking"
               /\ initialCount' = initialCount
               /\ lastDBCount' = lastDBCount
               /\ lastSentCount' = lastSentCount
               /\ lastMsgCount' = lastMsgCount
               /\ successRate' = successRate
               /\ totalSuccessRate' = totalSuccessRate
          /\ (lastTick = "skipped" /\ lastTick' = "reported") =>
               /\ initialCount' = initialCount
               /\ successRate' =
                    RatePercent(lastDBCount' - lastDBCount, dataCount - lastSentCount)
               /\ totalSuccessRate' =
                    RatePercent(lastDBCount' - initialCount, dataCount)
               /\ lastSentCount' = dataCount
               /\ lastMsgCount' = msgCount
         ]_vars

\* C15 witness: a tick has been skipped while points sent since the last
\* snapshot were waiting to be reported.
C15_Witness ==
    /\ lastTick = "skipped"
    /\ dataCount > lastSentCount

\* C16: close(initDone) runs exactly once on every path of the monitor: on
\* a failed open or probe it runs and the monitor returns without a tick; on
\* success it runs after the baseline is captured and before the first tick.
C16_InitDoneSignalledOnce ==
    /\ [](/\ initDoneCloses <= 1
          /\ monPc \in {"returned", "ticking"} => initDoneCloses = 1
          /\ monPc \in {"notStarted", "open", "ping", "baseline", "signal"} =>
               initDoneCloses = 0
          /\ monPc # "ticking" => lastTick = "none"
          /\ monPc \in {"open", "ping", "baseline", "signal"} => ENABLED MonitorStep)
    /\ [][/\ initDoneCloses' # initDoneCloses =>
               \/ monPc \in {"open", "ping"} /\ monPc' = "returned"
               \/ monPc = "signal" /\ monPc' = "ticking"
          /\ monPc' = "signal" => monPc \in {"baseline", "signal"}
          /\ (monPc = "baseline" /\ monPc' = "signal") =>
               /\ lastDBCount' = initialCount'
               /\ lastSentCount' = dataCount
               /\ lastMsgCount' = msgCount
          /\ monPc = "signal" => initialCount' = initialCount
          /\ monPc = "returned" => monPc' = "returned"
         ]_vars

\* C16 witness: the monitor gave up during initialisation, signalled, and the
\* run went on to send points.
C16_Witness ==
    /\ monPc = "returned"
    /\ initDoneCloses = 1
    /\ dataCount > 0

\* C17: whatever the monitor does (initialisation succeeds or fails, queries
\* fail or not), a run that entered the cycle loop reaches the final summary.
C17_SummaryWhateverTheMonitorDoes ==
    (mainPc \in InLoop) ~> (mainPc = "done")

\* C18: broadcast k is never later than firstBroadcast + (k-1) x interval
\* by more than the processing delay of one iteration: the lag does not
\* add up over the cycles.
C18_NoAccumulatedDrift ==
    schedPc = "sleep" =>
        lastBroadcast - (firstBroadcast + (schedCycle - 1) * DataInterval) <= MaxDelay

\* C19: after LoadConfig every parameter given on the command line has the
\* flag's value, whatever the file says and also when that value is 0, and
\* every parameter not given has the file's value.
C19_FlagOverridesFile ==
    (loadPc = "loaded" /\ fileRead) =>
        \A p \in Params :
            loadedConfig[p] = IF p \in flagGiven THEN flagValue[p] ELSE fileConfig[p]

\* C20: a worker leaves the loop only at the select, and only when the
\* context is cancelled: once released it finishes the publish attempt (and
\* its counter update) first, and a worker that has left the loop never
\* waits or publishes again.
C20_CancelSeenOnlyAtLoopTop ==
    [][\A w \in Workers :
         /\ (wpc'[w] = "exiting" /\ wpc[w] # "exiting") =>
              (wpc[w] = "connect" \/ (wpc[w] = "select" /\ ctxDone))
         /\ (wpc[w] = "select" /\ wpc'[w] = "recv") => ~ ctxDone
         /\ wpc[w] = "recv" => wpc'[w] \in {"recv", "blocked"}
         /\ wpc[w] = "blocked" => wpc'[w] \in {"blocked", "publish"}
         /\ wpc[w] = "publish" => wpc'[w] \in {"publish", "select"}
         /\ wpc[w] \in ExitStates =>
              /\ wpc'[w] \in ExitStates
              /\ relCnt'[w] = relCnt[w]
      ]_vars

\* C20 witness: the context is cancelled while a worker is inside a publish.
C20_Witness ==
    /\ ctxDone
    /\ \E w \in Workers : wpc[w] = "publish" /\ relCnt[w] = 1

\* C21: every spawned worker adds 1 to exitCount exactly once when it
\* returns, on the connect-failure path too: exitCount is the number of
\* workers past their deferred count, and once a wg.Wait() of main has
\* returned it is the number of spawned workers.
C21_ExitCountedOncePerWorker ==
    /\ exitCount = Cardinality({ w \in Workers : wpc[w] \in {"done", "returned"} })
    /\ mainPc \in {"final", "report", "done", "returned"} =>
         exitCount = Cardinality(Spawned)

\* C21 witness: the report of a run of two workers of which one failed to
\* connect.
C21_Witness ==
    /\ mainPc = "report"
    /\ Cardinality(Spawned) = 2
    /\ successNum = 1
    /\ exitCount = 2

\* C22: the monitor's last-seen sent count never exceeds the sent counter,
\* and the interval sent-deltas of the reports made so far add up to the
\* sent counter at the latest report minus the one captured at the baseline,
\* whichever ticks were skipped in between.
C22_SentDeltasAddUp ==
    /\ lastSentCount <= dataCount
    /\ monPc \in {"signal", "ticking"} =>
         sentDiffSum = lastSentCount - initialSentCount

\* C22 witness: a report has counted points, and a later tick was skipped
\* while more points had been sent.
C22_Witness ==
    /\ lastTick = "skipped"
    /\ sentDiffSum > 0
    /\ dataCount > lastSentCount

\* C23: when the initial count query fails after a successful probe the
\* monitor goes on with a baseline of 0: it signals, it ticks, and the
\* cumulative stored total of every report is the store's current count.
C23_FailedBaselineQueryCountsFromZero ==
    /\ [](baselineFailed =>
            /\ initialCount = 0
            /\ monPc \in {"signal", "ticking"}
            /\ ENABLED MonitorStep
            /\ monPc = "ticking" => initDoneCloses = 1
            /\ lastTick # "none" => totalStored = lastDBCount)
    /\ [][(monPc = "baseline" /\ baselineFailed') =>
            /\ monPc' = "signal"
            /\ lastDBCount' = 0
            /\ initDoneCloses' = 0]_vars

\* C23 witness: after a failed initial query a tick reports a stored total.
C23_Witness ==
    /\ baselineFailed
    /\ lastTick = "reported"
    /\ totalStored > 0

\* the batch size b' of a run: b if 0 < b <= n, else n
EffectiveBatch == IF 0 < batchSize /\ batchSize <= count THEN batchSize ELSE count

\* the states in which createDevices has returned its device list
CreateReturned == {"created", "saveTokens", "done", "saveFailed"}

\* C24: createDevices commits after every b'-th insert and after the last
\* one: the committed devices are always the first `commits` batches, on
\* success all n devices are committed in ceil(n/b') transactions, and when
\* an insert fails no device list is returned, no file is written, the open
\* batch is rolled back and the batches committed before it stay.
C24_BatchedCommits ==
    /\ committed = { k \in 0 .. (count - 1) : k < commits * EffectiveBatch }
    /\ toolPc = "insert" =>
         /\ txPending = (0 .. (di - 1)) \ committed
         /\ Cardinality(txPending) < EffectiveBatch
    /\ toolPc \in CreateReturned =>
         /\ committed = 0 .. (count - 1)
         /\ txPending = {}
         /\ Len(devices) = count
         /\ count > 0 => commits = (count + EffectiveBatch - 1) \div EffectiveBatch
    /\ toolPc = "insertFailed" =>
         /\ devices = << >>
         /\ txPending = {}
         /\ committed = { k \in 0 .. (count - 1) :
                            k < EffectiveBatch * (di \div EffectiveBatch) }
         /\ idFileContent = idFileBefore
         /\ tokenFileContent = tokenFileBefore
         /\ ~ ENABLED ToolStep

\* C24 witness: of three devices in batches of two, the first batch is
\* committed and the insert of the third device has failed.
C24_Witness ==
    /\ toolPc = "insertFailed"
    /\ count = 3
    /\ di = 2
    /\ committed = {0, 1}

\* the lines a file has gained: in append mode the ones after its old
\* lines, in overwrite mode all of them once the file was written
Gained(before, content) ==
    IF appendMode THEN SubSeq(content, Len(before) + 1, Len(content))
    ELSE IF content = before THEN << >> ELSE content

\* C25: in every outcome of saveDeviceInfo the ID file and the token file
\* have gained the same number of lines, line k of both belonging to the
\* same device; append mode keeps the old lines of both files, and after a
\* successful overwrite both files hold exactly the new lines.
C25_FilesStayPaired ==
    toolPc \in {"done", "saveFailed"} =>
        LET ids == Gained(idFileBefore, idFileContent)
            tokens == Gained(tokenFileBefore, tokenFileContent)
        IN  /\ Len(ids) = Len(tokens)
            /\ \A k \in 1 .. Len(ids) :
                 \E d \in 0 .. (count - 1) :
                    ids[k] = DeviceID(d) /\ tokens[k] = DeviceToken(d)
            /\ appendMode =>
                 /\ SubSeq(idFileContent, 1, Len(idFileBefore)) = idFileBefore
                 /\ SubSeq(tokenFileContent, 1, Len(tokenFileBefore)) = tokenFileBefore
            /\ (toolPc = "done" /\ ~ appendMode) =>
                 /\ idFileContent = [k \in 1 .. count |-> DeviceID(k - 1)]
                 /\ tokenFileContent = [k \in 1 .. count |-> DeviceToken(k - 1)]

====
